---- MODULE Spec2Model ----
(***************************************************************************)
(* CHIP-8 emulator (src/src/main.rs): the Emulator struct and the run loop *)
(* of main.  One step of the model is one iteration of the loop: the timer *)
(* update, the fetch, the match arm the instruction selects, and the loop  *)
(* tail (sleep, write_to_window, pc += 2) unless the arm ends in continue. *)
(*                                                                         *)
(* A Rust panic unwinds out of main and drops the Emulator: an iteration   *)
(* that panics leaves no machine state behind.  The model records the      *)
(* panic message in `panic`, keeps the state the last completed iteration  *)
(* left, and takes no further step.                                        *)
(***************************************************************************)
EXTENDS Integers, Sequences, FiniteSets, TLC

\* ------------------------------------------------------------ constants
WIDTH == 64
HEIGHT == 32
RamSize == 4096
StackSize == 16
FontBase == 80
RomBase == 512

\* ----------------------------------------------------------------- bits
\* (b >> k) & 0x1
Bit(b, k) == (b \div (2 ^ k)) % 2

\* a & b on u8
BitAnd(a, b) ==
    LET t(k) == Bit(a, k) * Bit(b, k) * (2 ^ k)
    IN  t(0) + t(1) + t(2) + t(3) + t(4) + t(5) + t(6) + t(7)

\* Mutant of XorBit: the sprite bit is OR-ed in.
OrBit(byte, pixel, pos) ==
    IF pixel = 0 \/ Bit(byte, pos) = 1 THEN byte ELSE byte + (2 ^ pos)

\* byte ^ (pixel << pos), pixel in {0, 1}
XorBit(byte, pixel, pos) ==
    IF pixel = 0 THEN byte
    ELSE IF Bit(byte, pos) = 1 THEN byte - (2 ^ pos) ELSE byte + (2 ^ pos)

\* ------------------------------------------------------------ font, ROM
font_sprites ==
    << \HF0, \H90, \H90, \H90, \HF0,
       \H20, \H60, \H20, \H20, \H70,
       \HF0, \H10, \HF0, \H80, \HF0,
       \HF0, \H10, \HF0, \H10, \HF0,
       \H90, \H90, \HF0, \H10, \H10,
       \HF0, \H80, \HF0, \H10, \HF0,
       \HF0, \H80, \HF0, \H90, \HF0,
       \HF0, \H10, \H20, \H40, \H40,
       \HF0, \H90, \HF0, \H90, \HF0,
       \HF0, \H90, \HF0, \H10, \HF0,
       \HF0, \H90, \HF0, \H90, \H90,
       \HE0, \H90, \HE0, \H90, \HE0,
       \HF0, \H80, \H80, \H80, \HF0,
       \HE0, \H90, \H90, \H90, \HE0,
       \HF0, \H80, \HF0, \H80, \HF0,
       \HF0, \H80, \HF0, \H10, \HF0 >>

\* The ROM file as a sequence of bytes, from a program given as 16-bit words.
RomBytes(words) ==
    [i \in 1..(2 * Len(words)) |->
        IF i % 2 = 1 THEN words[(i + 1) \div 2] \div 256
                     ELSE words[i \div 2] % 256]

\* Emulator::default() followed by load_rom: zeroed ram, the font at 0x050,
\* the ROM bytes from 0x200.
load_rom(rom_data) ==
    [a \in 0..(RamSize - 1) |->
        IF a >= FontBase /\ a < FontBase + Len(font_sprites)
            THEN font_sprites[a - FontBase + 1]
        ELSE IF a >= RomBase /\ a < RomBase + Len(rom_data)
            THEN rom_data[a - RomBase + 1]
        ELSE 0]

\* u8_to_key: the host key a CHIP-8 key code is mapped to.  Host keys are
\* named by the code they stand for; a value that is no key code is Key1.
u8_to_key(key) == IF key \in 0..15 THEN key ELSE 1

\* The model's bound: the host keys the keyboard input ranges over are those
\* of the key codes below NumHostKeys (Key::X is code 0, Key::Key1 is code 1
\* and every value that is no key code).
NumHostKeys == 2

HostKeys == 0..(NumHostKeys - 1)

\* ------------------------------------------------------ instruction words
LD(x, kk) == \H6000 + x * 256 + kk
ADDI(x, kk) == \H7000 + x * 256 + kk
SE(x, kk) == \H3000 + x * 256 + kk
SNE(x, kk) == \H4000 + x * 256 + kk
ALU(x, y, n) == \H8000 + x * 256 + y * 16 + n
LDI(nnn) == \HA000 + nnn
JP(nnn) == \H1000 + nnn
CALL(nnn) == \H2000 + nnn
RET == \H00EE
RND(x, kk) == \HC000 + x * 256 + kk
DRW(x, y, n) == \HD000 + x * 256 + y * 16 + n
SKP(x) == \HE09E + x * 256
SKNP(x) == \HE0A1 + x * 256
FX(x, lo) == \HF000 + x * 256 + lo

\* -------------------------------------------------- the ROMs of the model
\* Every run starts from one ROM of Programs, loaded at 0x200.
Vals == {0, 1, 3, 5, 255}
RegPairs == {<<0, 1>>, <<1, 1>>, <<15, 0>>, <<0, 15>>, <<15, 15>>}

AluPrograms ==
    {<<LD(r[1], a), LD(r[2], b), ALU(r[1], r[2], op)>> :
        r \in RegPairs, a \in Vals, b \in Vals, op \in {0, 2, 4, 5}}

AddPrograms ==
    {<<LD(x, a), ADDI(x, kk)>> : x \in {0, 15}, a \in Vals, kk \in {0, 2, 255}}

SkipPrograms ==
    {<<LD(x, a), SE(x, kk), SNE(x, kk)>> : x \in {0, 15}, a \in {0, 5}, kk \in {0, 5}}

KeyPrograms ==
    {<<LD(x, a), SKP(x), LD(2, 7)>> : x \in {0, 15}, a \in {0, 1, 16}}
    \cup {<<LD(x, a), SKNP(x), LD(2, 7)>> : x \in {0, 15}, a \in {0, 1, 16}}

\* Two draws of the same sprite at (V0, V1), the sprite read at I.
DrawTwicePrograms ==
    {<<LD(0, a), LD(1, b), LDI(i), DRW(0, 1, n), DRW(0, 1, n)>> :
        a \in {0, 60, 63, 250}, b \in {0, 30, 255},
        i \in {\H050, \H09B, \HFFE}, n \in {0, 1, 5, 15}}

\* A second sprite drawn over a first one, at the same place or shifted.
OverdrawPrograms ==
    {<<LDI(i1), DRW(0, 0, 5), LD(0, a), LDI(i2), DRW(0, 1, n), DRW(0, 1, n)>> :
        i1 \in {\H050, \H055}, a \in {0, 2, 62}, i2 \in {\H050, \H054, \H09F},
        n \in {2, 5}}

\* Draws whose position registers or flag start from VF.
FlagDrawPrograms ==
    {<<LD(15, a), LDI(\H050), DRW(x, y, 5), DRW(x, y, 5)>> :
        a \in {1, 3}, x \in {0, 15}, y \in {0, 15}}

\* Calls and returns, balanced, nested, overflowing and underflowing, and
\* jumps; these programs come to rest, or panic, by themselves.
CallPrograms ==
    { <<CALL(\H204), JP(\H202), LD(0, 1), RET>>,
      <<CALL(\H204), JP(\H202), 0, CALL(\H208), RET, RET>>,
      <<CALL(\H204), LD(3, 9), LD(0, 1), CALL(\H20A), RET, LD(1, 2), RET>>,
      <<CALL(\H1FE)>>,
      <<CALL(\H000)>>,
      <<CALL(\HFFF)>>,
      <<CALL(\HFFC)>>,
      <<RET>>,
      <<CALL(\H200), RET, RET, RET>>,
      <<JP(\H200)>>,
      <<JP(\HFFE)>>,
      <<JP(\HFFF)>>,
      <<LD(0, 1), JP(\H204), 0, ADDI(0, 1), JP(\H206)>> }

TimerPrograms ==
    {<<LD(0, a), FX(0, \H15), FX(1, \H07), FX(2, \H07), FX(15, \H07)>> :
        a \in {0, 1, 2}}
    \cup {<<LD(15, 255), FX(15, \H15), FX(1, \H07)>>}
    \cup {<<LD(0, 2), FX(0, \H15), SKP(0)>>}

MemPrograms ==
    {<<LD(x, v), LDI(i), FX(x, \H33), FX(y, \H65)>> :
        x \in {0, 15}, v \in {0, 7, 214, 255}, i \in {\H300, \H202, \HFFD, \HFFE},
        y \in {0, 2, 15}}
    \cup {<<LD(x, v), FX(x, \H29), DRW(1, 1, 5)>> : x \in {0, 15}, v \in {0, 1, 15, 255}}
    \cup {<<RND(x, kk), RND(x, kk)>> : x \in {0, 15}, kk \in {\H0F, \HFF}}
    \cup {<<LD(0, 214), LDI(FontBase), FX(0, \H33)>>}

OtherPrograms ==
    { <<\H5000, LD(0, 1)>>, <<\H0000>>, <<\H00E0>>, <<\H8000>>, <<\H8001>>,
      <<\H8FF0>>, <<LD(1, 4), \H8010>>, <<\HF000>>, <<\HE000>>, <<\HFFFF>>,
      <<\H9000>>, <<\HB000>> }

\* A program followed by two jumps to themselves, where it comes to rest.
End(prog) ==
    prog \o <<JP(RomBase + 2 * Len(prog)), JP(RomBase + 2 * Len(prog) + 2)>>

Programs ==
    {End(prog) : prog \in
        AluPrograms \cup AddPrograms \cup SkipPrograms \cup KeyPrograms
        \cup DrawTwicePrograms \cup OverdrawPrograms \cup FlagDrawPrograms
        \cup TimerPrograms \cup MemPrograms \cup OtherPrograms}
    \cup CallPrograms

\* The bytes the random generator is taken to return.
RandBytes == {\H00, \H5A, \HFF}

\* ---------------------------------------------------------------- state
VARIABLES
    ram,              \* Emulator.ram
    registers,        \* Emulator.registers, V0..VF
    register_i,       \* Emulator.register_i
    pc,               \* Emulator.pc
    sp,               \* Emulator.sp
    stack,            \* Emulator.stack
    window,           \* Emulator.window: the host keys down at the last update
    display,          \* Emulator.display, 8 pixels to the byte
    register_dt,      \* Emulator.register_dt
    overflow_checks,  \* the build: integer overflow panics (debug) or wraps
    panic,            \* "none", or the message of the panic that ended main
    pending,          \* history: the calls not yet returned from, <<site, depth>>
    hist              \* history: the last two iterations, latest first

machine ==
    <<ram, registers, register_i, pc, sp, stack, window, display, register_dt>>

vars == <<machine, overflow_checks, panic, pending, hist>>

NoCall == [at |-> -1, depth |-> -1]

Init ==
    /\ \E prog \in Programs : ram = load_rom(RomBytes(prog))
    /\ registers = [r \in 0..15 |-> 0]
    /\ register_i = 0
    /\ pc = RomBase
    /\ sp = 0
    /\ stack = [s \in 0..(StackSize - 1) |-> 0]
    /\ window = {}
    /\ display = [b \in 0..((WIDTH \div 8) * HEIGHT - 1) |-> 0]
    /\ register_dt = 0
    /\ overflow_checks \in BOOLEAN
    /\ panic = "none"
    /\ pending = <<>>
    /\ hist = <<>>

\* ---------------------------------------------------------------- fetch
\* The fetch reads ram[pc] and ram[pc + 1]; both indexings are bounds-checked.
FetchInRange == pc + 1 < RamSize

instruction_high == ram[pc]
instruction_low == ram[pc + 1]
instruction == instruction_high * 256 + instruction_low
x_nibble == instruction_high % 16
y_nibble == instruction_low \div 16
nnn == (instruction_high % 16) * 256 + instruction_low

\* The arm of `match instruction` a word selects: the arms in source order,
\* each a range of words and, where the source has one, a guard.
Decode(w) ==
    LET In(lo, hi) == w >= lo /\ w <= hi
    IN  IF In(\H6000, \H6FFF) THEN "6xkk"
        ELSE IF In(\HA000, \HAFFF) THEN "Annn"
        ELSE IF In(\HD000, \HDFFF) THEN "Dxyn"
        ELSE IF In(\H2000, \H2FFF) THEN "2nnn"
        ELSE IF In(\H7000, \H7FFF) THEN "7xkk"
        ELSE IF w = \H00EE THEN "00EE"
        ELSE IF In(\HF065, \HFF65) /\ w % 256 = \H65 THEN "Fx65"
        ELSE IF In(\HF033, \HFF33) /\ w % 256 = \H33 THEN "Fx33"
        ELSE IF In(\HF029, \HFF29) /\ w % 256 = \H29 THEN "Fx29"
        ELSE IF In(\HF007, \HFF07) /\ w % 256 = \H07 THEN "Fx07"
        ELSE IF In(\HF015, \HFF15) /\ w % 256 = \H15 THEN "Fx15"
        ELSE IF In(\H3000, \H3FFF) THEN "3xkk"
        ELSE IF In(\H1000, \H1FFF) THEN "1nnn"
        ELSE IF In(\HC000, \HCFFF) THEN "Cxkk"
        ELSE IF In(\HE09E, \HEF9E) /\ w % 256 = \H9E THEN "Ex9E"
        ELSE IF In(\HE0A1, \HEFA1) /\ w % 256 = \HA1 THEN "ExA1"
        ELSE IF In(\H8002, \H8FF2) /\ w % 16 = 2 THEN "8xy2"
        ELSE IF In(\H8004, \H8FF4) /\ w % 16 = 4 THEN "8xy4"
        ELSE IF In(\H8005, \H8FF5) /\ w % 16 = 5 THEN "8xy5"
        ELSE IF In(\H8002, \H8FF0) /\ w % 16 = 0 THEN "8xy0"
        ELSE IF In(\H4000, \H4FFF) THEN "4xkk"
        ELSE "unimplemented"

\* The loop is at an instruction that selects `arm`.
Fetched(arm) ==
    /\ panic = "none"
    /\ FetchInRange
    /\ Decode(instruction) = arm

\* ------------------------------------------------------- the loop's ends
\* Mutant of TimerUpdate: the decrement is a wrapping one, made at zero too.
TimerUpdate_wraps(tick) ==
    IF tick THEN (register_dt - 1) % 256 ELSE register_dt

\* The timer update at the head of the loop; `tick` is whether 16667
\* microseconds have elapsed since the last update.
TimerUpdate(tick) ==
    IF tick /\ register_dt > 0 THEN register_dt - 1 ELSE register_dt

\* What the history keeps of an iteration: the state it started from, the
\* word it fetched (-1: the fetch failed), the arm, the answer of
\* is_key_down, the call a return is matched with, and how the iteration
\* ended ("none", or the panic message).
Cycle(word, arm, key_down, matched, outcome) ==
    [ word |-> word, arm |-> arm, at |-> pc, sp |-> sp, stack |-> stack,
      registers |-> registers, register_i |-> register_i,
      register_dt |-> register_dt, display |-> display,
      key_down |-> key_down, matched |-> matched, panic |-> outcome ]

Record(c) == hist' = IF hist = <<>> THEN <<c>> ELSE <<c, hist[1]>>

Field(upd, f, old) == IF f \in DOMAIN upd THEN upd[f] ELSE old

\* The iteration completes: `upd` holds the fields the arm assigned.  With
\* `cont` the arm ended in `continue`; otherwise the loop tail runs:
\* write_to_window (which polls the keyboard) and pc += 2.  write_to_window
\* is taken to return Ok: its buffer always has WIDTH * HEIGHT entries.
Commit(arm, tick, upd, cont, key_down, matched) ==
    /\ ram' = Field(upd, "ram", ram)
    /\ registers' = Field(upd, "registers", registers)
    /\ register_i' = Field(upd, "register_i", register_i)
    /\ sp' = Field(upd, "sp", sp)
    /\ stack' = Field(upd, "stack", stack)
    /\ display' = Field(upd, "display", display)
    /\ register_dt' = Field(upd, "register_dt", TimerUpdate(tick))
    /\ IF cont
          THEN /\ pc' = Field(upd, "pc", pc)
               /\ window' = window
          ELSE /\ pc' = Field(upd, "pc", pc) + 2
               /\ window' \in SUBSET HostKeys
    /\ panic' = "none"
    /\ pending' = IF arm = "2nnn" THEN <<[at |-> pc, depth |-> sp]>> \o pending
                  ELSE IF arm = "00EE" THEN Tail(pending)
                  ELSE pending
    /\ Record(Cycle(instruction, arm, key_down, matched, "none"))
    /\ UNCHANGED overflow_checks

\* The iteration panics with `msg`.
Halt(word, arm, msg) ==
    /\ panic' = msg
    /\ Record(Cycle(word, arm, FALSE, NoCall, msg))
    /\ UNCHANGED <<machine, overflow_checks, pending>>

\* ram[pc] or ram[pc + 1] is out of bounds.
FetchPanic ==
    /\ panic = "none"
    /\ ~FetchInRange
    /\ Halt(-1, "fetch", "index out of bounds")

\* ------------------------------------------------------------ the sprite
\* Sprite { x, y, height, width, content }, content 0-indexed.
Sprite(x, y, height, width, content) ==
    [x |-> x, y |-> y, height |-> height, width |-> width, content |-> content]

\* u8 + u8: -1 stands for the "attempt to add with overflow" panic of a build
\* with overflow checks; the other build wraps.
AddU8(a, b) ==
    IF a + b > 255 /\ overflow_checks THEN -1 ELSE (a + b) % 256

\* One pass of the inner loop of load_sprite: pixel x_offset of row y_offset
\* (whose row coordinate is y), on the state st = [registers, display, panic].
load_sprite_pixel(sprite, y_offset, y, x_offset, st) ==
    LET content_byte == sprite.content[y_offset]
        xsum == AddU8(sprite.x, x_offset)
        x == xsum % WIDTH
        byte_index == (x \div 8) + y * (WIDTH \div 8)
        bit_position == 7 - (x % 8)
        display_byte == st.display[byte_index]
        display_pixel == Bit(display_byte, bit_position)
        sprite_pixel == Bit(content_byte, 7 - x_offset)
    IN  IF xsum = -1
        THEN [st EXCEPT !.panic = "attempt to add with overflow"]
        ELSE [ registers |-> IF display_pixel = 1 /\ sprite_pixel = 1
                             THEN [st.registers EXCEPT ![15] = 1]
                             ELSE st.registers,
               display |-> [st.display EXCEPT
                   ![byte_index] = XorBit(display_byte, sprite_pixel, bit_position)],
               panic |-> "none" ]

\* The inner loop, for x_offset in from..sprite.width - 1.
RECURSIVE load_sprite_row(_, _, _, _, _)
load_sprite_row(sprite, y_offset, y, from, st) ==
    IF st.panic # "none" \/ from >= sprite.width THEN st
    ELSE load_sprite_row(sprite, y_offset, y, from + 1,
                         load_sprite_pixel(sprite, y_offset, y, from, st))

\* The outer loop, for y_offset in from..sprite.height - 1.
RECURSIVE load_sprite_rows(_, _, _)
load_sprite_rows(sprite, from, st) ==
    IF st.panic # "none" \/ from >= sprite.height THEN st
    ELSE LET ysum == AddU8(sprite.y, from)
         IN  IF ysum = -1
             THEN [st EXCEPT !.panic = "attempt to add with overflow"]
             ELSE load_sprite_rows(sprite, from + 1,
                      load_sprite_row(sprite, from, ysum % HEIGHT, 0, st))

\* Mutant of load_sprite: VF is not cleared before the rows.
load_sprite_keeps_flag(sprite) ==
    load_sprite_rows(sprite, 0,
        [registers |-> registers, display |-> display, panic |-> "none"])

\* Emulator::load_sprite: VF := 0, then the rows.
load_sprite(sprite) ==
    load_sprite_rows(sprite, 0,
        [ registers |-> [registers EXCEPT ![15] = 0],
          display |-> display,
          panic |-> "none" ])

\* ------------------------------------------------------ the presentation
\* Mutant of convert_display_to_buffer: the bits of a byte are taken from
\* the least significant one.
convert_display_to_buffer_lsb_first ==
    [k \in 0..(8 * Cardinality(DOMAIN display) - 1) |->
        IF Bit(display[k \div 8], k % 8) > 0 THEN \HFFFF ELSE \H0000]

\* Emulator::convert_display_to_buffer: for each byte of the display in
\* order, and for bit_index 0..7 in order, one colour is pushed: 0xFFFF if
\* bit 7 - bit_index of the byte is set, 0x0000 if not.  Entry k of the
\* vector (0-indexed) is the push of bit_index k mod 8 of byte k div 8.
convert_display_to_buffer ==
    [k \in 0..(8 * Cardinality(DOMAIN display) - 1) |->
        LET row == display[k \div 8]
            bit_index == k % 8
            first_bit == Bit(row, 7 - bit_index) > 0
        IN  IF first_bit THEN \HFFFF ELSE \H0000]

\* ------------------------------------------------------------- the arms
Op6xkk ==
    /\ Fetched("6xkk")
    /\ \E tick \in BOOLEAN :
         Commit("6xkk", tick,
                [registers |-> [registers EXCEPT ![x_nibble] = instruction_low]],
                FALSE, FALSE, NoCall)

OpAnnn ==
    /\ Fetched("Annn")
    /\ \E tick \in BOOLEAN :
         Commit("Annn", tick, [register_i |-> nnn], FALSE, FALSE, NoCall)

OpDxyn ==
    /\ Fetched("Dxyn")
    /\ LET x_registry == instruction_high % 16
           y_registry == instruction_low \div 16
           sprite_height == instruction_low % 16
           x_pos == registers[x_registry]
           y_pos == registers[y_registry]
       IN  IF register_i + sprite_height > RamSize
           THEN Halt(instruction, "Dxyn", "range end index out of range for slice")
           ELSE
             LET sprite_content ==
                     [r \in 0..(sprite_height - 1) |-> ram[register_i + r]]
                 drawn == load_sprite(Sprite(x_pos, y_pos, sprite_height, 8,
                                             sprite_content))
             IN  IF drawn.panic # "none"
                 THEN Halt(instruction, "Dxyn", drawn.panic)
                 ELSE \E tick \in BOOLEAN :
                        Commit("Dxyn", tick,
                               [registers |-> drawn.registers,
                                display |-> drawn.display],
                               FALSE, FALSE, NoCall)

\* Mutant of Op2nnn: the stack slot is not bounds-checked.
Op2nnn_unchecked ==
    /\ Fetched("2nnn")
    /\ \E tick \in BOOLEAN :
         Commit("2nnn", tick,
                [stack |-> [stack EXCEPT ![sp % StackSize] = pc + 2],
                 sp |-> sp + 1,
                 pc |-> nnn],
                FALSE, FALSE, NoCall)

Op2nnn ==
    /\ Fetched("2nnn")
    /\ IF sp >= StackSize
       THEN Halt(instruction, "2nnn", "index out of bounds")
       ELSE \E tick \in BOOLEAN :
              Commit("2nnn", tick,
                     [stack |-> [stack EXCEPT ![sp] = pc + 2],
                      sp |-> sp + 1,
                      pc |-> nnn],
                     FALSE, FALSE, NoCall)

\* Mutant of Op7xkk: the carry of the addition is recorded in VF.
Op7xkk_sets_carry ==
    /\ Fetched("7xkk")
    /\ LET sum == registers[x_nibble] + instruction_low
           flagged == [registers EXCEPT ![15] = IF sum > 255 THEN 1 ELSE 0]
       IN  \E tick \in BOOLEAN :
             Commit("7xkk", tick,
                    [registers |-> [flagged EXCEPT ![x_nibble] = sum % 256]],
                    FALSE, FALSE, NoCall)

Op7xkk ==
    /\ Fetched("7xkk")
    /\ \E tick \in BOOLEAN :
         Commit("7xkk", tick,
                [registers |-> [registers EXCEPT
                    ![x_nibble] = (registers[x_nibble] + instruction_low) % 256]],
                FALSE, FALSE, NoCall)

\* Mutant of Op00EE: the arm does not end in continue.
Op00EE_falls_through ==
    /\ Fetched("00EE")
    /\ sp > 0
    /\ \E tick \in BOOLEAN :
         Commit("00EE", tick, [sp |-> sp - 1, pc |-> stack[sp - 1]],
                FALSE, FALSE, Head(pending))

\* sp -= 1 on sp = 0 panics in a build with overflow checks; in the other
\* build it wraps to 255 and the indexing stack[255] panics.
Op00EE ==
    /\ Fetched("00EE")
    /\ LET sp1 == IF sp = 0 THEN 255 ELSE sp - 1
       IN  IF sp = 0 /\ overflow_checks
           THEN Halt(instruction, "00EE", "attempt to subtract with overflow")
           ELSE IF sp1 >= StackSize
           THEN Halt(instruction, "00EE", "index out of bounds")
           ELSE \E tick \in BOOLEAN :
                  Commit("00EE", tick, [sp |-> sp1, pc |-> stack[sp1]],
                         TRUE, FALSE,
                         IF pending = <<>> THEN NoCall ELSE Head(pending))

\* Mutant of OpFx65: the transfer goes from the registers to ram.
OpFx65_stores ==
    /\ Fetched("Fx65")
    /\ register_i + x_nibble < RamSize
    /\ \E tick \in BOOLEAN :
         Commit("Fx65", tick,
                [ram |-> [a \in DOMAIN ram |->
                    IF a \in register_i..(register_i + x_nibble)
                    THEN registers[a - register_i] ELSE ram[a]]],
                FALSE, FALSE, NoCall)

\* Mutant of OpFx65: the loop is 0..x, without Vx.
OpFx65_exclusive ==
    /\ Fetched("Fx65")
    /\ register_i + x_nibble < RamSize
    /\ \E tick \in BOOLEAN :
         Commit("Fx65", tick,
                [registers |-> [i \in 0..15 |->
                    IF i < x_nibble THEN ram[register_i + i]
                                    ELSE registers[i]]],
                FALSE, FALSE, NoCall)

\* Mutant of OpFx65: the addresses I + i wrap around the end of ram.
OpFx65_wraps ==
    /\ Fetched("Fx65")
    /\ \E tick \in BOOLEAN :
         Commit("Fx65", tick,
                [registers |-> [i \in 0..15 |->
                    IF i <= x_nibble THEN ram[(register_i + i) % RamSize]
                                     ELSE registers[i]]],
                FALSE, FALSE, NoCall)

OpFx65 ==
    /\ Fetched("Fx65")
    /\ IF register_i + x_nibble >= RamSize
       THEN Halt(instruction, "Fx65", "index out of bounds")
       ELSE \E tick \in BOOLEAN :
              Commit("Fx65", tick,
                     [registers |-> [i \in 0..15 |->
                         IF i <= x_nibble THEN ram[register_i + i]
                                          ELSE registers[i]]],
                     FALSE, FALSE, NoCall)

\* Mutant of OpFx33: the tens digit is taken from the units digit.
OpFx33_tens_of_unit ==
    /\ Fetched("Fx33")
    /\ LET number == registers[x_nibble]
           value_unit == number % 10
           value_tens == (number % 10) \div 10
           value_hundreds == (number \div 100) % 10
       IN  /\ register_i + 2 < RamSize
           /\ \E tick \in BOOLEAN :
                  Commit("Fx33", tick,
                         [ram |-> [ram EXCEPT ![register_i] = value_hundreds,
                                              ![register_i + 1] = value_tens,
                                              ![register_i + 2] = value_unit]],
                         FALSE, FALSE, NoCall)

OpFx33 ==
    /\ Fetched("Fx33")
    /\ LET number == registers[x_nibble]
           value_unit == number % 10
           value_tens == (number \div 10) % 10
           value_hundreds == (number \div 100) % 10
       IN  IF register_i + 2 >= RamSize
           THEN Halt(instruction, "Fx33", "index out of bounds")
           ELSE \E tick \in BOOLEAN :
                  Commit("Fx33", tick,
                         [ram |-> [ram EXCEPT ![register_i] = value_hundreds,
                                              ![register_i + 1] = value_tens,
                                              ![register_i + 2] = value_unit]],
                         FALSE, FALSE, NoCall)

OpFx29 ==
    /\ Fetched("Fx29")
    /\ \E tick \in BOOLEAN :
         Commit("Fx29", tick,
                [register_i |-> FontBase + registers[x_nibble] * 5],
                FALSE, FALSE, NoCall)

OpFx07 ==
    /\ Fetched("Fx07")
    /\ \E tick \in BOOLEAN :
         Commit("Fx07", tick,
                [registers |-> [registers EXCEPT ![x_nibble] = TimerUpdate(tick)]],
                FALSE, FALSE, NoCall)

OpFx15 ==
    /\ Fetched("Fx15")
    /\ \E tick \in BOOLEAN :
         Commit("Fx15", tick, [register_dt |-> registers[x_nibble]],
                FALSE, FALSE, NoCall)

Op3xkk ==
    /\ Fetched("3xkk")
    /\ \E tick \in BOOLEAN :
         Commit("3xkk", tick,
                [pc |-> IF registers[x_nibble] = instruction_low THEN pc + 2 ELSE pc],
                FALSE, FALSE, NoCall)

\* Mutant of Op1nnn: the arm does not end in continue.
Op1nnn_falls_through ==
    /\ Fetched("1nnn")
    /\ \E tick \in BOOLEAN :
         Commit("1nnn", tick, [pc |-> nnn], FALSE, FALSE, NoCall)

Op1nnn ==
    /\ Fetched("1nnn")
    /\ \E tick \in BOOLEAN :
         Commit("1nnn", tick, [pc |-> nnn], TRUE, FALSE, NoCall)

OpCxkk ==
    /\ Fetched("Cxkk")
    /\ \E tick \in BOOLEAN, random_number \in RandBytes :
         Commit("Cxkk", tick,
                [registers |-> [registers EXCEPT
                    ![x_nibble] = BitAnd(random_number, instruction_low)]],
                FALSE, FALSE, NoCall)

\* window.is_key_down(u8_to_key(Vx)): the window is Some from init_window on.
is_key_down == u8_to_key(registers[x_nibble]) \in window

OpEx9E ==
    /\ Fetched("Ex9E")
    /\ \E tick \in BOOLEAN :
         Commit("Ex9E", tick,
                [pc |-> IF is_key_down THEN pc + 2 ELSE pc],
                TRUE, is_key_down, NoCall)

OpExA1 ==
    /\ Fetched("ExA1")
    /\ \E tick \in BOOLEAN :
         Commit("ExA1", tick,
                [pc |-> IF ~is_key_down THEN pc + 2 ELSE pc],
                TRUE, is_key_down, NoCall)

Op8xy2 ==
    /\ Fetched("8xy2")
    /\ \E tick \in BOOLEAN :
         Commit("8xy2", tick,
                [registers |-> [registers EXCEPT
                    ![x_nibble] = BitAnd(registers[x_nibble], registers[y_nibble])]],
                FALSE, FALSE, NoCall)

\* overflowing_add; VF is assigned first, Vx second.
Op8xy4 ==
    /\ Fetched("8xy4")
    /\ LET sum == registers[x_nibble] + registers[y_nibble]
           result == sum % 256
           overflowed == IF sum > 255 THEN 1 ELSE 0
           flagged == [registers EXCEPT ![15] = overflowed]
       IN  \E tick \in BOOLEAN :
             Commit("8xy4", tick,
                    [registers |-> [flagged EXCEPT ![x_nibble] = result]],
                    FALSE, FALSE, NoCall)

\* overflowing_sub; VF is assigned first, Vx second.
Op8xy5 ==
    /\ Fetched("8xy5")
    /\ LET diff == registers[x_nibble] - registers[y_nibble]
           result == diff % 256
           borrowed == diff < 0
           flagged == [registers EXCEPT ![15] = IF borrowed THEN 0 ELSE 1]
       IN  \E tick \in BOOLEAN :
             Commit("8xy5", tick,
                    [registers |-> [flagged EXCEPT ![x_nibble] = result]],
                    FALSE, FALSE, NoCall)

Op8xy0 ==
    /\ Fetched("8xy0")
    /\ \E tick \in BOOLEAN :
         Commit("8xy0", tick,
                [registers |-> [registers EXCEPT ![x_nibble] = registers[y_nibble]]],
                FALSE, FALSE, NoCall)

Op4xkk ==
    /\ Fetched("4xkk")
    /\ \E tick \in BOOLEAN :
         Commit("4xkk", tick,
                [pc |-> IF registers[x_nibble] # instruction_low THEN pc + 2 ELSE pc],
                FALSE, FALSE, NoCall)

\* The default arm prints "Instruction .. not implemented" and falls
\* through to the loop tail.
OpUnimplemented ==
    /\ Fetched("unimplemented")
    /\ \E tick \in BOOLEAN :
         Commit("unimplemented", tick, [pc |-> pc], FALSE, FALSE, NoCall)

Next ==
    \/ FetchPanic
    \/ Op6xkk
    \/ OpAnnn
    \/ OpDxyn
    \/ Op2nnn
    \/ Op7xkk
    \/ Op00EE
    \/ OpFx65
    \/ OpFx33
    \/ OpFx29
    \/ OpFx07
    \/ OpFx15
    \/ Op3xkk
    \/ Op1nnn
    \/ OpCxkk
    \/ OpEx9E
    \/ OpExA1
    \/ Op8xy2
    \/ Op8xy4
    \/ Op8xy5
    \/ Op8xy0
    \/ Op4xkk
    \/ OpUnimplemented

Spec == Init /\ [][Next]_vars

\* --------------------------------------------------- reading the history
\* The iteration the loop ran last.
Last == hist[1]

\* The last iteration ran arm `arm` to its end.
Done(arm) == hist # <<>> /\ Last.arm = arm /\ panic = "none"

\* The last iteration was at an instruction of arm `arm`, completed or not.
At(arm) == hist # <<>> /\ Last.arm = arm

\* The operand fields of an instruction word.
WordX(w) == (w \div 256) % 16
WordY(w) == (w \div 16) % 16
WordN(w) == w % 16
WordKK(w) == w % 256
WordNNN(w) == w % 4096

\* Pixel (px, py) of a display: byte py * 8 + px div 8, bit 7 - px mod 8.
Pixel(disp, px, py) == Bit(disp[py * (WIDTH \div 8) + px \div 8], 7 - (px % 8))

\* The cells (row, column) of the sprite of the draw `c`.
Cells(c) == (0..(WordN(c.word) - 1)) \X (0..7)

\* The sprite bit of cell rc of the draw `c`: bit 7 - column of byte I + row.
CellBit(c, rc) == Bit(ram[c.register_i + rc[1]], 7 - rc[2])

\* The pixel cell rc of the draw `c` lands on.
CellX(c, rc) == (c.registers[WordX(c.word)] + rc[2]) % WIDTH
CellY(c, rc) == (c.registers[WordY(c.word)] + rc[1]) % HEIGHT

\* The sprite bit the draw `c` lands on pixel (px, py), 0 if none: a sprite
\* has at most 15 rows of 8 columns, so at most one cell lands on a pixel.
SpriteBitAt(c, px, py) ==
    LET col == (px - c.registers[WordX(c.word)]) % WIDTH
        row == (py - c.registers[WordY(c.word)]) % HEIGHT
    IN  IF col < 8 /\ row < WordN(c.word) THEN CellBit(c, <<row, col>>) ELSE 0

Pixels == (0..(WIDTH - 1)) \X (0..(HEIGHT - 1))

\* ---------------------------------------------------------------- claims

\* C1: a call 2nnn executed at p with sp < 16 stores p + 2 in stack slot sp,
\* increments sp by one and leaves pc = nnn, so that the next instruction
\* fetched is the one at nnn.
C1_CallEntersAtTarget ==
    Done("2nnn") =>
        /\ stack[Last.sp] = Last.at + 2
        /\ sp = Last.sp + 1
        /\ pc = WordNNN(Last.word)

\* C2: Ex9E at p leaves pc = p + 4 when key Vx is down and p + 2 when it is
\* up; ExA1 at p leaves pc = p + 4 when key Vx is up and p + 2 when it is down.
C2_KeyTestAdvance ==
    /\ Done("Ex9E") => pc = Last.at + (IF Last.key_down THEN 4 ELSE 2)
    /\ Done("ExA1") => pc = Last.at + (IF Last.key_down THEN 2 ELSE 4)

\* C3: a word outside the opcode table is fatal: the interpreter halts at it
\* and pc is not advanced.
C3_UnimplementedIsFatal ==
    At("unimplemented") => panic # "none" /\ pc = Last.at

\* C4: after 8xy4, VF is 1 if Vx + Vy exceeded 255 and 0 otherwise, for
\* every x and y (F included); for x other than F, Vx is the sum mod 256.
C4_AddSetsCarry ==
    Done("8xy4") =>
        LET x == WordX(Last.word)
            sum == Last.registers[x] + Last.registers[WordY(Last.word)]
        IN  /\ registers[15] = IF sum > 255 THEN 1 ELSE 0
            /\ x # 15 => registers[x] = sum % 256

\* C5: after 8xy5, VF is 1 if old Vx >= old Vy and 0 otherwise, for every x
\* and y (F included); for x other than F, Vx is the difference mod 256.
C5_SubSetsNoBorrow ==
    Done("8xy5") =>
        LET x == WordX(Last.word)
            vx == Last.registers[x]
            vy == Last.registers[WordY(Last.word)]
        IN  /\ registers[15] = IF vx >= vy THEN 1 ELSE 0
            /\ x # 15 => registers[x] = (vx - vy) % 256

\* The display after the draw `c`, pixel by pixel: the old pixel XOR the
\* sprite bit that lands on it.
DrawnAsSpecified(c, before, after) ==
    \A p \in Pixels :
        Pixel(after, p[1], p[2]) =
            (Pixel(before, p[1], p[2]) + SpriteBitAt(c, p[1], p[2])) % 2

\* C6: a Dxyn whose sprite rows lie in memory completes without a fatal
\* condition, whatever Vx, Vy and n, and XORs each sprite bit into the pixel
\* at ((Vx + c) mod 64, (Vy + r) mod 32), leaving every other pixel as it was.
C6_DrawWrapsAndCompletes ==
    (At("Dxyn") /\ Last.register_i + WordN(Last.word) <= RamSize) =>
        /\ panic = "none"
        /\ DrawnAsSpecified(Last, Last.display, display)

\* The draw `c` has a sprite bit 1 on a pixel that is set (clear) in `disp`.
HitsPixel(c, disp, value) ==
    \E rc \in Cells(c) :
        CellBit(c, rc) = 1 /\ Pixel(disp, CellX(c, rc), CellY(c, rc)) = value

\* C7: after Dxyn, VF is 1 if and only if some sprite bit 1 landed on a pixel
\* that was set before the draw, and 0 otherwise, whatever VF held before.
C7_CollisionFlag ==
    Done("Dxyn") =>
        registers[15] = IF HitsPixel(Last, Last.display, 1) THEN 1 ELSE 0

\* A draw that collides in its first row and not in its last one, and a
\* collision-free draw that started with VF = 1: both have happened.
C7_Witness ==
    /\ Done("Dxyn")
    /\ WordN(Last.word) >= 2
    /\ registers[15] = 1
    /\ \E col \in 0..7 :
          CellBit(Last, <<0, col>>) = 1
          /\ Pixel(Last.display, CellX(Last, <<0, col>>), CellY(Last, <<0, col>>)) = 1
    /\ \A col \in 0..7 :
          LET rc == <<WordN(Last.word) - 1, col>>
          IN  ~(CellBit(Last, rc) = 1
                /\ Pixel(Last.display, CellX(Last, rc), CellY(Last, rc)) = 1)

\* The last two iterations are the same draw, completed twice: the same
\* word with x and y not F, the same I, Vx and Vy.
SameDrawTwice ==
    /\ Len(hist) = 2
    /\ panic = "none"
    /\ hist[1].arm = "Dxyn" /\ hist[2].arm = "Dxyn"
    /\ hist[1].word = hist[2].word
    /\ WordX(hist[1].word) # 15 /\ WordY(hist[1].word) # 15
    /\ hist[1].register_i = hist[2].register_i
    /\ hist[1].registers[WordX(hist[1].word)] = hist[2].registers[WordX(hist[1].word)]
    /\ hist[1].registers[WordY(hist[1].word)] = hist[2].registers[WordY(hist[1].word)]

\* C8: drawing the same sprite twice in a row returns the framebuffer to its
\* state before the first draw, and the second draw leaves VF = 1 exactly
\* when the first draw turned on at least one pixel.
C8_DoubleDrawRestores ==
    SameDrawTwice =>
        /\ display = hist[2].display
        /\ registers[15] = IF HitsPixel(hist[2], hist[2].display, 0) THEN 1 ELSE 0

\* A double draw over a framebuffer that was not blank, whose first draw
\* changed it, turned a pixel on and wrapped around the right edge.
C8_Witness ==
    /\ SameDrawTwice
    /\ registers[15] = 1
    /\ \E b \in DOMAIN display : hist[2].display[b] # 0
    /\ hist[1].display # hist[2].display
    /\ hist[2].registers[WordX(hist[2].word)] + 7 >= WIDTH

\* C9: the 00EE that matches a 2nnn executed at p with stack depth d leaves
\* pc = p + 2 and the stack pointer at d.
C9_CallReturnRoundTrip ==
    Done("00EE") =>
        /\ Last.matched # NoCall
        /\ pc = Last.matched.at + 2
        /\ sp = Last.matched.depth

\* The return of an outer call, right after the return of a call nested in it.
C9_Witness ==
    /\ Done("00EE")
    /\ Len(hist) = 2
    /\ hist[2].arm = "00EE"
    /\ Last.matched.depth = 0
    /\ pc = Last.matched.at + 2
    /\ sp = 0

\* The last iteration panicked and left pc, sp and the stack as they were.
HaltedInPlace ==
    /\ panic # "none"
    /\ pc = Last.at
    /\ sp = Last.sp
    /\ stack = Last.stack

Pattern(w) ==
    LET class == w \div 4096
    IN  IF w = \H00EE THEN "00EE"
        ELSE IF class = 1 THEN "1nnn"
        ELSE IF class = 2 THEN "2nnn"
        ELSE IF class = 3 THEN "3xkk"
        ELSE IF class = 4 THEN "4xkk"
        ELSE IF class = 6 THEN "6xkk"
        ELSE IF class = 7 THEN "7xkk"
        ELSE IF class = 8 /\ WordN(w) = 0 THEN "8xy0"
        ELSE IF class = 8 /\ WordN(w) = 2 THEN "8xy2"
        ELSE IF class = 8 /\ WordN(w) = 4 THEN "8xy4"
        ELSE IF class = 8 /\ WordN(w) = 5 THEN "8xy5"
        ELSE IF class = 10 THEN "Annn"
        ELSE IF class = 12 THEN "Cxkk"
        ELSE IF class = 13 THEN "Dxyn"
        ELSE IF class = 14 /\ WordKK(w) = \H9E THEN "Ex9E"
        ELSE IF class = 14 /\ WordKK(w) = \HA1 THEN "ExA1"
        ELSE IF class = 15 /\ WordKK(w) = \H07 THEN "Fx07"
        ELSE IF class = 15 /\ WordKK(w) = \H15 THEN "Fx15"
        ELSE IF class = 15 /\ WordKK(w) = \H29 THEN "Fx29"
        ELSE IF class = 15 /\ WordKK(w) = \H33 THEN "Fx33"
        ELSE IF class = 15 /\ WordKK(w) = \H65 THEN "Fx65"
        ELSE "none"

\* The step in hand starts at a word of pattern `pat` (the fetch succeeds).
Executes(pat) ==
    /\ panic = "none"
    /\ FetchInRange
    /\ Pattern(instruction) = pat

\* The step in hand runs a word of pattern `pat` to the end of its iteration.
Retires(pat) == Executes(pat) /\ panic' = "none" /\ hist' # hist

\* The last iteration ran a word of pattern `pat` to its end.
Retired(pat) ==
    /\ hist # <<>>
    /\ panic = "none"
    /\ Last.word >= 0
    /\ Pattern(Last.word) = pat

\* The delay timer moved as the timer update at the head of the loop moves
\* it, and not otherwise: it stayed, or went down by one from above zero.
TimerOnly ==
    \/ register_dt' = register_dt
    \/ register_dt > 0 /\ register_dt' = register_dt - 1

\* C11: Fx33 with Vx = v and I <= 4093 completes and leaves memory[I] =
\* v div 100, memory[I + 1] = (v div 10) mod 10, memory[I + 2] = v mod 10, so
\* the three bytes are decimal digits whose value is v; every other memory
\* byte, every register and I are as before (the delay timer moves only by
\* the timer update of the iteration).
C11_BcdStore ==
    [][ Executes("Fx33") /\ register_i <= RamSize - 3 =>
          LET v == registers[WordX(instruction)]
              at == register_i
          IN  /\ Retires("Fx33")
              /\ ram'[at] = v \div 100
              /\ ram'[at + 1] = (v \div 10) % 10
              /\ ram'[at + 2] = v % 10
              /\ 100 * ram'[at] + 10 * ram'[at + 1] + ram'[at + 2] = v
              /\ \A k \in 0..2 : ram'[at + k] \in 0..9
              /\ \A a \in DOMAIN ram \ {at, at + 1, at + 2} : ram'[a] = ram[a]
              /\ registers' = registers
              /\ register_i' = register_i
              /\ TimerOnly
    ]_vars

\* Fx33 has stored the digits 2, 1, 4 of Vx = 214.
C11_Witness ==
    /\ Retired("Fx33")
    /\ Last.registers[WordX(Last.word)] = 214
    /\ ram[Last.register_i] = 2
    /\ ram[Last.register_i + 1] = 1
    /\ ram[Last.register_i + 2] = 4
    /\ register_i = Last.register_i
    /\ registers = Last.registers

\* The patterns whose instruction neither jumps nor skips.
PlainPatterns ==
    { "6xkk", "7xkk", "8xy0", "8xy2", "8xy4", "8xy5", "Annn", "Cxkk", "Dxyn",
      "Fx07", "Fx15", "Fx29", "Fx33", "Fx65" }

C13_DelayTimerStep ==
    [][ /\ register_dt \in 0..255
        /\ register_dt' \in 0..255
        /\ TimerUpdate(TRUE) = IF register_dt > 0 THEN register_dt - 1 ELSE 0
        /\ TimerUpdate(FALSE) = register_dt
        /\ Retires("Fx15") => register_dt' = registers[WordX(instruction)]
        /\ ~Retires("Fx15") => TimerOnly
        /\ (register_dt = 0 /\ ~Executes("Fx15")) => register_dt' = 0
        /\ (Executes("1nnn") /\ WordNNN(instruction) = pc) =>
              UNCHANGED <<ram, registers, register_i, pc, sp, stack, display>>
    ]_vars

\* A key test that waits in place saw the timer tick from 1 to 0, and the
\* next iteration, still waiting, left the timer at 0.
C13_Witness ==
    /\ Len(hist) = 2
    /\ panic = "none"
    /\ Pattern(hist[2].word) = "Ex9E"
    /\ Pattern(hist[1].word) = "Ex9E"
    /\ hist[2].at = hist[1].at
    /\ pc = hist[1].at
    /\ hist[2].register_dt = 1
    /\ hist[1].register_dt = 0
    /\ register_dt = 0

\* The last iteration panicked and left the registers, I, pc and the display
\* as they were.
Stopped ==
    /\ panic # "none"
    /\ pc = Last.at
    /\ registers = Last.registers
    /\ register_i = Last.register_i
    /\ display = Last.display

\* C14: a fetch at pc > 4094, a Dxyn whose rows I..I + n - 1 pass address
\* 4095, an Fx33 with I + 2 > 4095 and an Fx65 with I + x > 4095 each halt the
\* interpreter with nothing read into its state, and no iteration follows
\* one that halted.
C14_OutOfRangeIsFatal ==
    /\ \A i \in 2..Len(hist) : hist[i].panic = "none"
    /\ hist # <<>> =>
          LET w == Last.word
              pat == IF w >= 0 THEN Pattern(w) ELSE "none"
          IN  /\ Last.panic = panic
              /\ Last.at > RamSize - 2 => Stopped /\ w = -1
              /\ w = -1 => Last.at > RamSize - 2
              /\ (pat = "Dxyn" /\ Last.register_i + WordN(w) - 1 > RamSize - 1)
                    => Stopped
              /\ (pat = "Fx33" /\ Last.register_i + 2 > RamSize - 1) => Stopped
              /\ (pat = "Fx65" /\ Last.register_i + WordX(w) > RamSize - 1)
                    => Stopped

\* An Fx65 whose last address I + x is beyond 4095 has halted the interpreter.
C14_Witness ==
    /\ hist # <<>>
    /\ Last.word >= 0
    /\ Pattern(Last.word) = "Fx65"
    /\ Last.register_i <= RamSize - 1
    /\ Last.register_i + WordX(Last.word) > RamSize - 1
    /\ Stopped

\* C15: Fx65 with I + x <= 4095 completes and leaves Vi = memory[I + i] for
\* every i in 0..x (VF too when x = F) and every Vj with j > x as it was; I,
\* memory, the stack and the display are unchanged, and the delay timer moves
\* only by the timer update of the iteration.
C15_LoadRegisters ==
    [][ Executes("Fx65") /\ register_i + WordX(instruction) <= RamSize - 1 =>
          LET x == WordX(instruction)
          IN  /\ Retires("Fx65")
              /\ \A i \in 0..x : registers'[i] = ram[register_i + i]
              /\ \A j \in (x + 1)..15 : registers'[j] = registers[j]
              /\ register_i' = register_i
              /\ ram' = ram
              /\ stack' = stack
              /\ sp' = sp
              /\ display' = display
              /\ TimerOnly
    ]_vars

\* F265 has loaded the digits 2, 1, 4 into V0..V2, over V0 = 214, and has
\* left VF = 214 alone.
C15_Witness ==
    /\ Retired("Fx65")
    /\ WordX(Last.word) = 2
    /\ Last.registers[15] = 214
    /\ registers[0] = 2 /\ registers[1] = 1 /\ registers[2] = 4
    /\ registers[15] = 214
    /\ \A i \in 0..2 : registers[i] = ram[register_i + i]

\* C16: after 7xkk, Vx is (old Vx + kk) mod 256 and every other register is
\* as it was: VF too when x is not F, even when the addition wrapped.
C16_AddImmediateWraps ==
    Retired("7xkk") =>
        LET x == WordX(Last.word)
        IN  /\ registers[x] = (Last.registers[x] + WordKK(Last.word)) % 256
            /\ \A j \in 0..15 \ {x} : registers[j] = Last.registers[j]

\* An addition to V0 that wrapped has left VF = 0.
C16_Witness ==
    /\ Retired("7xkk")
    /\ WordX(Last.word) = 0
    /\ Last.registers[0] + WordKK(Last.word) > 255
    /\ registers[0] = Last.registers[0] + WordKK(Last.word) - 256
    /\ registers[15] = 0

\* C17: every fetched word is executed by the arm of the pattern it matches,
\* and by the default arm exactly when it matches none; a word 8xy0, 0x8000
\* included, is executed as the copy Vx := Vy.
C17_DecodeIsExact ==
    (hist # <<>> /\ Last.word >= 0) =>
        LET pat == Pattern(Last.word)
        IN  /\ Last.arm = IF pat = "none" THEN "unimplemented" ELSE pat
            /\ (pat = "8xy0" /\ panic = "none") =>
                  registers[WordX(Last.word)] = Last.registers[WordY(Last.word)]

\* C18: an instruction of the opcode table that completes at address p and
\* is not a jump, a call or a return is retired in that iteration: pc has
\* moved past p, to p + 2 or p + 4.  A key test whose condition is false is
\* no exception, so the loop does not stay on it.
C18_NoInstructionBlocks ==
    ( /\ hist # <<>>
      /\ panic = "none"
      /\ Last.word >= 0
      /\ Pattern(Last.word) \notin {"1nnn", "2nnn", "00EE", "none"} )
    => pc \in {Last.at + 2, Last.at + 4}

\* C19: an iteration whose instruction is not Dxyn leaves the display as it
\* was, one whose instruction is not Fx33 leaves every byte of memory as it
\* was (the font and the program included), and one whose instruction is
\* neither 2nnn nor 00EE leaves the stack and the stack pointer as they were.
C19_FrameConditions ==
    [][ LET pat == IF panic = "none" /\ FetchInRange
                   THEN Pattern(instruction) ELSE "none"
        IN  /\ pat # "Dxyn" => display' = display
            /\ pat # "Fx33" => ram' = ram
            /\ pat \notin {"2nnn", "00EE"} => stack' = stack /\ sp' = sp
    ]_vars

\* An Fx33 with I at the font has overwritten the first three font bytes
\* with the digits of 214, and the display and the stack are as they were.
C19_Witness ==
    /\ Retired("Fx33")
    /\ Last.register_i = FontBase
    /\ ram[FontBase] = 2 /\ ram[FontBase + 1] = 1 /\ ram[FontBase + 2] = 4
    /\ font_sprites[1] # 2
    /\ \A a \in (FontBase + 3)..(FontBase + 79) : ram[a] = font_sprites[a - FontBase + 1]
    /\ display = Last.display
    /\ stack = Last.stack /\ sp = Last.sp

\* C20: the buffer handed to the window has 64 * 32 = 2048 entries, and its
\* entry y * 64 + x is non-zero exactly when pixel (x, y) of the display, as
\* Dxyn addresses it, is set; after a draw, the entry of each pixel a sprite
\* cell landed on is non-zero exactly when the old pixel and the sprite bit
\* differ.  (The buffer is a function of the display; the display changes
\* only by a draw, so it is looked at at the start and after each draw.)
C20_BufferMatchesDisplay ==
    (hist = <<>> \/ Retired("Dxyn")) =>
        LET buffer == convert_display_to_buffer
        IN  /\ DOMAIN buffer = 0..(WIDTH * HEIGHT - 1)
            /\ \A p \in Pixels :
                  (buffer[p[2] * WIDTH + p[1]] # 0) = (Pixel(display, p[1], p[2]) = 1)
            /\ hist # <<>> =>
                  \A rc \in Cells(Last) :
                      LET px == CellX(Last, rc)
                          py == CellY(Last, rc)
                      IN  (buffer[py * WIDTH + px] # 0) =
                            (Pixel(Last.display, px, py) # CellBit(Last, rc))

\* A draw at Vx = 63 has wrapped around the right edge: the buffer shows a
\* pixel in column 63 and one in column 0 of the same row.
C20_Witness ==
    /\ Retired("Dxyn")
    /\ Last.registers[WordX(Last.word)] = 63
    /\ \E py \in 0..(HEIGHT - 1) :
          /\ convert_display_to_buffer[py * WIDTH + 63] # 0
          /\ convert_display_to_buffer[py * WIDTH] # 0

====
